---------------------------- MODULE Spec2Model ----------------------------
(***************************************************************************)
(* Model of the video feed of ricarch-dev/feed-with-react-native.          *)
(*                                                                         *)
(*   Feed (components/Feed.tsx, current version, lines 183-422)            *)
(*     activePostId, the scroll-based debounce timer, viewability.         *)
(*   Post (components/Post.tsx)                                            *)
(*     activeVideoIndex of every carousel, scroll and viewability.         *)
(*   VideoPlayer (components/VideoPlayer.tsx, the expo-video version that  *)
(*     VideoTile.tsx imports) one controller per mounted slot.             *)
(*   prefetch (utils/prefetch.ts)                                          *)
(*     the lookahead calls of Feed and Post, prefetchVideoMetadata and     *)
(*     prefetchMultipleVideos.                                             *)
(*   videoCache (utils/videoCache.ts)                                      *)
(*     the watch cache the player listeners write to, and the events the   *)
(*     listeners log.                                                      *)
(*                                                                         *)
(* React is modelled by what it does to these components:                  *)
(*   - a setState call changes the state at once (the update queue);       *)
(*   - the values a callback closes over are those of the last render:     *)
(*     rActivePostId, rActiveVideoIndex and slot[s].lsn hold them;         *)
(*   - Render is one commit of the whole tree: new props, effect cleanups, *)
(*     effects.  Native callbacks and timers are separate tasks of the     *)
(*     single JS thread; they may run between a setState and the commit    *)
(*     that makes it visible to the callbacks.                             *)
(* State that only drives drawing (isBuffering, the overlay icon, the      *)
(* scroll direction of the navbar, VideoTile.showVideo) is left out.       *)
(***************************************************************************)
EXTENDS Integers, Sequences, FiniteSets, TLC

\* ------------------------------------------------------------------ bounds
NumPosts == 2           \* posts in the feed
NumVideos == 3          \* videos in the carousel of the second post
MaxReport == 2          \* view tokens in one viewability report
MaxFaults == 5          \* error callbacks of a player within one activation
MaxTimers == 2          \* retry timers of one slot pending at the same time
MaxDeferred == 1        \* tasks already queued that run before a pending render
MaxCommits == 2         \* cap of the history counter commits
MaxUrls == 7            \* urls in one call of prefetchMultipleVideos
MaxOutstanding == 4     \* lookahead requests followed on the network
maxCacheSize == 3       \* capacity of videoCache (100 in the program)
MaxWatchCount == 2      \* watchCount: this value stands for it and for more
MaxClock == 2           \* Date.now() is 0 .. MaxClock
MaxLogged == 2          \* events of one kind counted for one slot
MaxFeedScrollK == 4     \* feed scroll offsets 0, FeedScrollStep, ...
MaxPostScrollK == 5     \* carousel scroll offsets -PostScrollStep, 0, ...
FeedScrollStep == 200
PostScrollStep == 188

\* ------------------------------------------------------- program constants
MAX_RETRIES == 3
EstimatedItemHeight == 600
ScreenHeight == 800
ScreenWidth == 400
TileMargin == 16
MAX_CONCURRENT == 3
VideosPerPost == 10      \* generatePost: videoIndex = postIndex * 10 + i
NumSampleUrls == 10      \* SAMPLE_VIDEO_URLS.length

VARIABLES
  activePostId,       \* Feed state: id of the active post, NullId when none
  rActivePostId,      \* activePostId as of the last render (closures, props)
  activeVideoIndex,   \* Post state, per post
  rActiveVideoIndex,  \* activeVideoIndex as of the last render
  scrollTimeoutRef,   \* Feed: the pending scroll-based commit, or NoTimer
  mounted,            \* slots whose VideoPlayer is mounted
  slot,               \* per slot: the VideoPlayer component and its player
  window,             \* slots the host lists may mount in this run
  deferred,           \* tasks run since some state is waiting for its render
  commits,            \* history: changes of activePostId made by viewability
                      \* reports since the pending scroll timer was set, none
                      \* counted before the last report without a
                      \* qualifying item
  prefetched,         \* history: the prefetchVideoMetadata calls the effects
                      \* of the last commit issued, in the order of the calls
  run,                \* prefetchMultipleVideos: "idle", "running" or "done"
  urls,               \* its argument
  started,            \* history: the batches it has started, in order
  probe,              \* per url of the argument: its prefetchVideoMetadata call
  lookahead,          \* history: the requests of the lookahead effects on the
                      \* network; followed (observed) only in the
                      \* specification that has the network answer them
  cache,              \* videoCache.cache: the entries in insertion order
  now,                \* Date.now()
  logged,             \* history: per slot, the playback_start and
                      \* playback_complete events its VideoPlayer logged
                      \* since its activation and the time_to_first_frame
                      \* events it logged since its mount; followed
                      \* (observed) only in the specification of the
                      \* player with the cache
  loads,              \* history: per slot, whether its player has been
                      \* ready since the mount, the load in flight (none,
                      \* one of the current activation or mount, or one
                      \* that a deactivation superseded), the class of
                      \* the fault of every pending retry, the retries
                      \* made with the fault and the method of each, and
                      \* whether the deactivation that ended the last
                      \* activation cancelled the delayed play; followed
                      \* (observed) only in the specification of the
                      \* retries
  scrolls             \* Feed, timer by timer: scrollTimeoutRef.current as
                      \* the code holds it (the id of the last timer set,
                      \* 0 for null), the scroll timers that are pending
                      \* with the estimate of each, and as history the
                      \* estimate of the last scroll event, whether an
                      \* event has cancelled a pending timer and whether
                      \* the scroll has ended since the last event;
                      \* followed (observed) only in the specification of
                      \* the scroll timers

vars == <<activePostId, rActivePostId, activeVideoIndex, rActiveVideoIndex,
          scrollTimeoutRef, mounted, slot, window, deferred, commits,
          prefetched, run, urls, started, probe, lookahead, cache, now,
          logged, loads, scrolls>>

netVars == <<run, urls, started, probe>>

cacheVars == <<cache, now>>

treeVars == <<activePostId, rActivePostId, activeVideoIndex,
              rActiveVideoIndex, scrollTimeoutRef, commits, prefetched>>

\* ------------------------------------------------------------------- data
\* The network of the lookahead requests when nothing follows it.
NoLookahead == [ observed |-> FALSE, outstanding |-> 0 ]

Posts == 0 .. (NumPosts - 1)
NullId == 0
NullIndex == -1
NoTimer == -1

\* generatePost: id `post-${postIndex}`, one id per index.
PostId(i) == i + 1

\* post.videos.length: generatePost gives a post one to four videos; the
\* second post has a carousel of NumVideos, the others a single video.
VideosLength(p) == IF p = 1 THEN NumVideos ELSE 1

Slots == { s \in Posts \X (0 .. (NumVideos - 1)) : s[2] < VideosLength(s[1]) }

Min(a, b) == IF a < b THEN a ELSE b
Max(a, b) == IF a > b THEN a ELSE b

\* ViewToken as the handlers read it: index (NullIndex for null), isViewable.
FeedTokens == [index : {NullIndex} \cup Posts, isViewable : BOOLEAN]
PostTokens == [index : {NullIndex} \cup (0 .. (NumVideos - 1)),
               isViewable : BOOLEAN]

RECURSIVE SeqsUpTo(_, _)
SeqsUpTo(S, n) ==
  IF n = 0 THEN { <<>> }
  ELSE LET shorter == SeqsUpTo(S, n - 1)
       IN  shorter \cup { Append(q, x) : q \in { t \in shorter : Len(t) = n - 1 }, x \in S }

FeedReports == SeqsUpTo(FeedTokens, MaxReport)
PostReports == SeqsUpTo(PostTokens, MaxReport)

FeedOffsets == { k * FeedScrollStep : k \in 0 .. MaxFeedScrollK }
PostOffsets == { k * PostScrollStep : k \in -1 .. MaxPostScrollK }

\* The same stretch of the carousel in steps of a quarter of PostScrollStep.
FinePostOffsets ==
  { k * (PostScrollStep \div 4) : k \in -4 .. (4 * MaxPostScrollK) }

\* ----------------------------------------------------------- videoCache
\* video.url of slot s: generateVideo(postIndex * 10 + i) takes the url
\* number videoIndex % SAMPLE_VIDEO_URLS.length of the sample pool.
Url(s) == (s[1] * VideosPerPost + s[2]) % NumSampleUrls

\* The id of the video of slot s: video-<postIndex * 10 + i>.
VideoId(s) == s[1] * VideosPerPost + s[2]

\* The uris of the calls made on the cache by itself: one more than it holds.
Uris == 0 .. maxCacheSize

\* What a player reports when a listener reads it: currentTime and duration
\* in seconds; duration 0 is a duration that is not known (0 or NaN).
Medias == [ currentTime : {0, 9}, duration : {0, 10} ]

UnknownDuration == { [ currentTime |-> 0, duration |-> 0 ] }

KnownDuration == { media \in Medias : media.duration # 0 }

\* position >= duration * 0.9, in tenths.
NinetyPercent(position, duration) == 10 * position >= 9 * duration

\* cache.get(uri): the places of the entry of uri, none or one.
Places(c, uri) == { i \in 1 .. Len(c) : c[i].uri = uri }

HasBeenWatched(c, uri) == Places(c, uri) # {}

IsFullyWatched(c, uri) ==
  \E i \in Places(c, uri) : c[i].isFullyWatched

GetCacheEntry(c, uri) == c[CHOOSE i \in Places(c, uri) : TRUE]

GetLastPosition(c, uri) ==
  IF HasBeenWatched(c, uri) THEN GetCacheEntry(c, uri).lastPosition ELSE 0

\* What the app reports of the video of slot s: VideoTile and VideoPlayer
\* ask the cache with the video's url.
WatchStatus(c, s) ==
  [ hasBeenWatched |-> HasBeenWatched(c, Url(s)),
    isFullyWatched |-> IsFullyWatched(c, Url(s)),
    lastPosition |-> GetLastPosition(c, Url(s)) ]

\* markAsWatched with an entry's isFullyWatched set from this call alone.
UpsertForgetful(c, uri, position, duration, t) ==
  IF Places(c, uri) # {}
    THEN [ i \in 1 .. Len(c) |->
             IF c[i].uri = uri
               THEN [ c[i] EXCEPT !.lastWatched = t,
                                  !.watchCount = Min(@ + 1, MaxWatchCount),
                                  !.lastPosition = position,
                                  !.duration = duration,
                                  !.isFullyWatched =
                                     NinetyPercent(position, duration) ]
               ELSE c[i] ]
    ELSE Append(c, [ uri |-> uri, lastWatched |-> t, watchCount |-> 1,
                     lastPosition |-> position, duration |-> duration,
                     isFullyWatched |-> NinetyPercent(position, duration) ])

\* markAsWatched that sets a new entry for a uri it knows.
UpsertFresh(c, uri, position, duration, t) ==
  LET Other(e) == e.uri # uri
  IN  Append(SelectSeq(c, Other),
             [ uri |-> uri, lastWatched |-> t, watchCount |-> 1,
               lastPosition |-> position, duration |-> duration,
               isFullyWatched |-> NinetyPercent(position, duration) ])

\* markAsWatched up to its call of cleanupCache: the entry of uri is updated
\* in place or a new one is set, which a Map puts last.
Upsert(c, uri, position, duration, t) ==
  IF Places(c, uri) # {}
    THEN [ i \in 1 .. Len(c) |->
             IF c[i].uri = uri
               THEN [ c[i] EXCEPT !.lastWatched = t,
                                  !.watchCount = Min(@ + 1, MaxWatchCount),
                                  !.lastPosition = position,
                                  !.duration = duration,
                                  !.isFullyWatched =
                                     NinetyPercent(position, duration) \/ @ ]
               ELSE c[i] ]
    ELSE Append(c, [ uri |-> uri, lastWatched |-> t, watchCount |-> 1,
                     lastPosition |-> position, duration |-> duration,
                     isFullyWatched |-> NinetyPercent(position, duration) ])

\* entries.sort((a, b) => b[1].lastWatched - a[1].lastWatched): a stable
\* sort, the latest first; entries of one time keep their order.
RECURSIVE SortByLastWatched(_)
SortByLastWatched(c) ==
  IF c = << >> THEN << >>
  ELSE LET front == SortByLastWatched(SubSeq(c, 1, Len(c) - 1))
           e == c[Len(c)]
           k == Cardinality({ i \in 1 .. Len(front) :
                                front[i].lastWatched >= e.lastWatched })
       IN  SubSeq(front, 1, k) \o << e >> \o SubSeq(front, k + 1, Len(front))

\* A cleanup that keeps the entries not fully watched before the others.
RECURSIVE SortByFullyWatched(_)
SortByFullyWatched(c) ==
  IF c = << >> THEN << >>
  ELSE LET front == SortByFullyWatched(SubSeq(c, 1, Len(c) - 1))
           e == c[Len(c)]
           k == Cardinality({ i \in 1 .. Len(front) :
                                ~front[i].isFullyWatched \/ e.isFullyWatched })
       IN  SubSeq(front, 1, k) \o << e >> \o SubSeq(front, k + 1, Len(front))

CleanupCacheByFullyWatched(c) ==
  IF Len(c) <= maxCacheSize THEN c
  ELSE SubSeq(SortByFullyWatched(c), 1, maxCacheSize)

\* A cleanup that runs only when the cache is two over its size.
CleanupCacheLate(c) ==
  IF Len(c) <= maxCacheSize + 1 THEN c
  ELSE SubSeq(SortByLastWatched(c), 1, maxCacheSize)

\* cleanupCache: over maxCacheSize the cache becomes the Map of the
\* maxCacheSize latest entries, in the order of the sort.
CleanupCache(c) ==
  IF Len(c) <= maxCacheSize THEN c
  ELSE SubSeq(SortByLastWatched(c), 1, maxCacheSize)

\* markAsWatched(uri, position, duration) at the time t of Date.now().
MarkAsWatched(c, uri, position, duration, t) ==
  CleanupCache(Upsert(c, uri, position, duration, t))

\* The entries marked in the millisecond t.
SameMillisecond(c, t) ==
  Cardinality({ i \in 1 .. Len(c) : c[i].lastWatched = t })

\* ------------------------------------------------------------ the slot
\* The values the three player listeners close over (the dependency list of
\* the effect that subscribes them); isActive is the prop slot[s].isActive.
Closure(r) ==
  [ retryCount |-> r.retryCount, hasError |-> r.hasError,
    hasLoggedStart |-> r.hasLoggedStart,
    hasLoggedComplete |-> r.hasLoggedComplete,
    hasLoggedTTFF |-> r.hasLoggedTTFF ]

\* useState/useRef initial values and the player useVideoPlayer creates for
\* the uri: it starts loading the source at once.  The last three fields
\* record the history of the current activation for the properties below:
\*   faults     error callbacks processed since the activation;
\*   exhausted  max_retries_reached has been logged since the activation;
\*   inOrder    no retry was pending at the activation, every fault since
\*              arrived with no retry pending, and no attempt has succeeded
\*              since the first fault.
NewSlot(active) ==
  [ isActive |-> active, lastActiveState |-> active,
    manuallyPaused |-> FALSE, retryCount |-> 0, hasError |-> FALSE,
    hasLoggedStart |-> FALSE, hasLoggedComplete |-> FALSE,
    hasLoggedTTFF |-> FALSE,
    lsn |-> [ retryCount |-> 0, hasError |-> FALSE,
              hasLoggedStart |-> FALSE, hasLoggedComplete |-> FALSE,
              hasLoggedTTFF |-> FALSE ],
    playTimeout |-> FALSE, retryTimers |-> <<>>,
    status |-> "loading", intent |-> FALSE, playing |-> FALSE,
    exhausted |-> FALSE, faults |-> 0, inOrder |-> TRUE ]

\* The record of a slot that is not mounted: nothing of it exists.
NoSlot ==
  [ NewSlot(FALSE) EXCEPT !.status = "idle" ]

\* player.play(): playback is wanted; it starts once the source is ready.
Play(r) == [ r EXCEPT !.intent = TRUE ]

\* player.pause()
Pause(r) == [ r EXCEPT !.intent = FALSE, !.playing = FALSE ]

\* player.replay(): seek to the start and play; a player that had failed
\* makes a new attempt at its source.
Replay(r) ==
  [ r EXCEPT !.intent = TRUE,
             !.status = IF @ = "error" THEN "loading" ELSE @ ]

\* ------------------------------------------------- VideoPlayer: listeners
\* statusChange, case 'readyToPlay'.
LogsTTFF(r) == ~r.lsn.hasLoggedTTFF /\ r.isActive

StatusReadyToPlay(r) ==
  LET a == IF LogsTTFF(r)
             THEN [ r EXCEPT !.hasLoggedTTFF = TRUE ] ELSE r
      b == IF r.lsn.hasError
             THEN [ a EXCEPT !.hasError = FALSE, !.retryCount = 0 ] ELSE a
  IN  [ b EXCEPT !.inOrder = IF r.faults > 0 THEN FALSE ELSE @ ]

\* statusChange, case 'error': the retry is scheduled on the listener's
\* retryCount and isActive; the timer callback keeps both.
SchedulesRetry(r) == r.lsn.retryCount < MAX_RETRIES /\ r.isActive

StatusError(r) ==
  LET schedule == SchedulesRetry(r)
      timer == [ isActive |-> r.isActive ]
  IN  [ r EXCEPT
          !.hasError = TRUE,
          !.retryTimers = IF schedule THEN Append(@, timer) ELSE @,
          !.exhausted = IF ~schedule /\ r.lsn.retryCount >= MAX_RETRIES
                          THEN TRUE ELSE @,
          !.faults = @ + 1,
          !.inOrder = IF r.retryTimers # <<>> THEN FALSE ELSE @ ]

\* The callback of the retry setTimeout, RETRY_DELAY after the fault.
RetryTimeout(r) ==
  LET timer == Head(r.retryTimers)
      rest == [ r EXCEPT !.retryTimers = Tail(@) ]
  IN  IF timer.isActive
        THEN Replay([ rest EXCEPT !.retryCount = @ + 1, !.hasError = FALSE ])
        ELSE rest

\* playingChange listener, called with isPlaying = true: whether it logs
\* playback_start, and what it does to the component.
LogsStart(r) == ~r.lsn.hasLoggedStart /\ r.isActive

PlayingChange(r) ==
  IF LogsStart(r)
    THEN [ r EXCEPT !.hasLoggedStart = TRUE ] ELSE r

\* playToEnd listener: whether it logs playback_complete, and what it does
\* to the component.
LogsComplete(r) == ~r.lsn.hasLoggedComplete

PlayToEndListener(r) ==
  IF LogsComplete(r)
    THEN [ r EXCEPT !.hasLoggedComplete = TRUE ] ELSE r

\* togglePause: the updater reads the current manuallyPaused.
TogglePause(r) ==
  IF ~r.manuallyPaused
    THEN Pause([ r EXCEPT !.manuallyPaused = TRUE ])
    ELSE Play([ r EXCEPT !.manuallyPaused = FALSE ])

\* The callback of the play setTimeout; its isActive is the one of the
\* activation that set it, which is true.
PlayTimeout(r) == Play([ r EXCEPT !.playTimeout = FALSE ])

\* The isActive effect, run because isActive changed: activation branch.
Activate(r) ==
  [ r EXCEPT !.lastActiveState = TRUE,
             !.hasLoggedStart = FALSE, !.hasLoggedComplete = FALSE,
             !.hasLoggedTTFF = FALSE, !.retryCount = 0, !.hasError = FALSE,
             !.manuallyPaused = FALSE, !.playTimeout = TRUE,
             !.exhausted = FALSE, !.faults = 0,
             !.inOrder = (r.retryTimers = <<>>) ]

\* A deactivation branch that marks the slot inactive and leaves its player
\* alone.
DeactivateNoPause(r) == [ r EXCEPT !.lastActiveState = FALSE ]

\* The isActive effect: deactivation branch.
Deactivate(r) == Pause([ r EXCEPT !.lastActiveState = FALSE ])

\* The isActive effect with its guard on lastActiveState.
ActiveEffect(r) ==
  IF r.lastActiveState = r.isActive THEN r
  ELSE IF r.isActive THEN Activate(r) ELSE Deactivate(r)

\* A commit that leaves the play timer of the effect's last run alone.
RenderSlotNoCleanup(r, active) ==
  LET seen == [ r EXCEPT !.lsn = Closure(r) ]
  IN  IF r.isActive = active THEN seen
      ELSE LET after == ActiveEffect([ seen EXCEPT !.isActive = active ])
           IN  [ after EXCEPT !.playTimeout = r.playTimeout \/ @ ]

\* One commit of a mounted VideoPlayer with the prop isActive = active: the
\* listeners are subscribed again with the values of this render, and when
\* the prop changed the effect's cleanup (clearTimeout) and the effect run.
RenderSlot(r, active) ==
  LET seen == [ r EXCEPT !.lsn = Closure(r) ]
  IN  IF r.isActive = active THEN seen
      ELSE ActiveEffect([ seen EXCEPT !.isActive = active,
                                      !.playTimeout = FALSE ])

\* ------------------------------------------- what the players logged
Events == { "playback_start", "playback_complete", "time_to_first_frame" }

Nothing == [ e \in Events |-> 0 ]

NoLogged == [ observed |-> FALSE, of |-> [ s \in Slots |-> Nothing ] ]

\* The history has room for one more event of slot s.
LogRoom(s, event, logs) ==
  (logged.observed /\ logs) => logged.of[s][event] < MaxLogged

\* log(event) by the VideoPlayer of slot s when logs holds.
Log(s, event, logs) ==
  IF logged.observed /\ logs
    THEN [ logged EXCEPT !.of[s][event] = @ + 1 ]
    ELSE logged

\* The slot is mounted or unmounted: nothing is logged of this mount.
LogNothing(s) == [ logged EXCEPT !.of[s] = Nothing ]

\* The commit activated the slots of activated: a new activation of each,
\* with its time_to_first_frame events kept.
LogActivations(activated) ==
  [ logged EXCEPT
      !.of = [ s \in Slots |->
                 IF logged.observed /\ s \in activated
                   THEN [ @[s] EXCEPT !["playback_start"] = 0,
                                      !["playback_complete"] = 0 ]
                   ELSE @[s] ] ]

\* ------------------------------------------- the loads of the players
\* A fault of a player that has not been ready since its mount is a fault
\* of the load (initialisation); a fault of one that has been ready is a
\* fault of the playback stream.
FaultClasses == { "load", "stream" }

\* The method of the retry callback: player.replay().
RetryMethod == "replay"

NoLoad ==
  [ everReady |-> FALSE, load |-> "none", scheduled |-> << >>, made |-> {},
    cancelled |-> FALSE ]

\* useVideoPlayer starts to load the source at the mount.
FirstLoad == [ NoLoad EXCEPT !.load = "current" ]

NoLoads == [ observed |-> FALSE, of |-> [ s \in Slots |-> NoLoad ] ]

FaultClass(s) == IF loads.of[s].everReady THEN "stream" ELSE "load"

\* The slot is unmounted: no player.
LoadNothing(s) == [ loads EXCEPT !.of[s] = NoLoad ]

\* The slot is mounted: a new player that loads its source.
LoadFirst(s) ==
  IF loads.observed THEN [ loads EXCEPT !.of[s] = FirstLoad ] ELSE loads

\* The player of slot s is ready: the load in flight, if any, is complete.
LoadReady(s) ==
  IF loads.observed
    THEN [ loads EXCEPT !.of[s].everReady = TRUE, !.of[s].load = "none" ]
    ELSE loads

\* The commit deactivated the slots of deactivated: their loads in flight
\* are superseded, and the delayed play of each that had one pending is
\* cancelled; it activated the slots of activated.
LoadSuperseded(deactivated, activated) ==
  IF loads.observed
    THEN [ loads EXCEPT
             !.of = [ s \in Slots |->
                        IF s \in deactivated
                          THEN [ @[s] EXCEPT
                                   !.load = IF @ = "current"
                                              THEN "superseded" ELSE @,
                                   !.cancelled = slot[s].playTimeout ]
                          ELSE IF s \in activated
                            THEN [ @[s] EXCEPT !.cancelled = FALSE ]
                            ELSE @[s] ] ]
    ELSE loads

\* The player of slot s reports a fault; the listener schedules a retry
\* when schedules holds.
LoadFault(s, schedules) ==
  IF loads.observed
    THEN [ loads EXCEPT
             !.of[s].load = "none",
             !.of[s].scheduled = IF schedules
                                   THEN Append(@, FaultClass(s)) ELSE @ ]
    ELSE loads

\* The oldest retry timer of slot s fires; its callback retries when
\* retries holds, and the player that had failed loads again.
LoadRetry(s, retries) ==
  IF loads.observed
    THEN [ loads EXCEPT
             !.of[s].scheduled = Tail(@),
             !.of[s].load = IF retries /\ slot[s].status = "error"
                              THEN "current" ELSE @,
             !.of[s].made =
               IF retries
                 THEN @ \cup { [ fault |-> Head(loads.of[s].scheduled),
                                 by |-> RetryMethod ] }
                 ELSE @ ]
    ELSE loads

\* ------------------------------------------------------- the JS thread
\* Some state is not yet rendered.
Dirty ==
  \/ activePostId # rActivePostId
  \/ activeVideoIndex # rActiveVideoIndex
  \/ \E s \in mounted : slot[s].lsn # Closure(slot[s])

\* A task of the JS thread other than React's render.  The render that a
\* setState schedules runs after the tasks that were queued before it, at
\* most MaxDeferred of them.
Task ==
  /\ ~Dirty \/ deferred < MaxDeferred
  /\ deferred' = IF Dirty THEN deferred + 1 ELSE 0

\* ------------------------------------------------------------ Feed, Post
\* The indices of the items of a report that the handlers consider: viewable,
\* with an index that is not null and is one of the n items of the list.
Qualifying(report, n) ==
  { report[i].index : i \in { j \in 1 .. Len(report) :
                                /\ report[j].isViewable
                                /\ report[j].index # NullIndex
                                /\ report[j].index >= 0
                                /\ report[j].index < n } }

\* renderPost: isActive of a Post.
RenderPost(ap, p) == ap = PostId(p)

\* A renderVideo that compares the index and drops the Post's own isActive.
RenderVideoAnyPost(postActive, avi, v) == v = avi

\* renderVideo: isActive of a VideoTile and of its VideoPlayer.
RenderVideo(postActive, avi, v) == postActive /\ v = avi

IsVideoActive(ap, avi, s) == RenderVideo(RenderPost(ap, s[1]), avi[s[1]], s[2])

\* Feed.onViewableItemsChanged: the loop over the report.
RECURSIVE FeedScan(_, _, _)
FeedScan(report, i, best) ==
  IF i > Len(report) THEN best
  ELSE LET item == report[i]
           visibility == 1
       IN  IF item.isViewable /\ item.index # NullIndex
                /\ (best.activePost = NullId \/ visibility > best.bestVisibility)
             THEN FeedScan(report, i + 1,
                           [ activePost |-> PostId(item.index),
                             bestIndex |-> item.index,
                             bestVisibility |-> visibility ])
             ELSE FeedScan(report, i + 1, best)

FeedBest(report) ==
  FeedScan(report, 1, [ activePost |-> NullId, bestIndex |-> -1,
                        bestVisibility |-> 0 ])

\* A handler that clears the active post when no item of the report
\* qualifies.
FeedNewActiveOrNone(prevId, report) == FeedBest(report).activePost

\* A handler without the early return on an empty report, which clears the
\* active post when nothing is viewable.
FeedNewActiveClearing(prevId, report) ==
  LET best == FeedBest(report)
  IN  IF Len(report) = 0 THEN NullId
      ELSE IF best.activePost = NullId THEN prevId ELSE best.activePost

\* The activePostId that the handler leaves, prevId being the state.
FeedNewActive(prevId, report) ==
  LET best == FeedBest(report)
  IN  IF Len(report) = 0 \/ best.activePost = NullId
        THEN prevId ELSE best.activePost

FeedOnViewableItemsChanged(reports) ==
  \E report \in reports :
        /\ Task
        /\ activePostId' = FeedNewActive(activePostId, report)
        /\ commits' =
             IF Qualifying(report, NumPosts) = {} THEN 0
             ELSE IF scrollTimeoutRef # NoTimer /\ activePostId' # activePostId
               THEN Min(commits + 1, MaxCommits)
               ELSE commits
        /\ UNCHANGED <<rActivePostId, activeVideoIndex, rActiveVideoIndex,
                       scrollTimeoutRef, mounted, slot, window, prefetched,
                 netVars, cacheVars, lookahead, logged, loads, scrolls>>

\* ------------------------------------------- the Feed's scroll timers
NoScrolls ==
  [ observed |-> FALSE, ref |-> 0, pending |-> {}, last |-> NoTimer,
    superseded |-> FALSE, ended |-> TRUE ]

\* Ids of setTimeout.  An id is given again only when no pending timer and
\* not the ref has it.
TimerIds == 1 .. 3

FreshTimer ==
  CHOOSE id \in TimerIds :
    /\ id # scrolls.ref
    /\ \A timer \in scrolls.pending : timer.id # id
    /\ \A other \in TimerIds :
          (other # scrolls.ref /\ \A timer \in scrolls.pending :
                                    timer.id # other) => id <= other

\* A clearTimeout that cancels nothing.
ClearTimeoutNone(pending, id) == pending

\* if (ref.current) clearTimeout(ref.current)
ClearTimeout(pending, id) == { timer \in pending : timer.id # id }

\* handleScroll: the pending timer of the ref is cleared; a timer for the
\* estimate is set and the ref takes its id when schedules holds.
ScrollEvent(estimate, schedules) ==
  IF scrolls.observed
    THEN LET cleared == ClearTimeout(scrolls.pending, scrolls.ref)
         IN  [ scrolls EXCEPT
                 !.pending =
                   IF schedules
                     THEN cleared \cup { [ id |-> FreshTimer,
                                           estimate |-> estimate ] }
                     ELSE cleared,
                 !.ref = IF schedules THEN FreshTimer ELSE @,
                 !.last = estimate,
                 !.superseded = @ \/ (cleared # scrolls.pending),
                 !.ended = FALSE ]
    ELSE scrolls

\* The timer for estimate fires; the ref keeps its id.
ScrollFires(estimate) ==
  IF scrolls.observed
    THEN [ scrolls EXCEPT
             !.pending = { timer \in @ : timer.estimate # estimate } ]
    ELSE scrolls

\* handleMomentumScrollEnd: the timer of the ref is cleared, the ref is null.
ScrollEnds ==
  IF scrolls.observed
    THEN [ scrolls EXCEPT
             !.pending = ClearTimeout(@, scrolls.ref), !.ref = 0,
             !.ended = TRUE ]
    ELSE scrolls

\* The timers left pending by the cleanup of the unmount of Feed.
UnmountCleanup == ClearTimeout(scrolls.pending, scrolls.ref)

\* Feed.handleScroll: the post under the centre of the screen.
EstimatedIndex(y) == (y + ScreenHeight \div 2) \div EstimatedItemHeight

\* Whether the handler sets a timer for its estimate.
SchedulesCommit(estimatedIndex) ==
  /\ estimatedIndex >= 0
  /\ estimatedIndex < NumPosts
  /\ PostId(estimatedIndex) # rActivePostId

FeedHandleScroll ==
  \E y \in FeedOffsets :
    LET estimatedIndex == EstimatedIndex(y)
    IN  /\ Task
        /\ scrollTimeoutRef' =
             IF SchedulesCommit(estimatedIndex)
               THEN estimatedIndex ELSE NoTimer
        /\ commits' = 0
        /\ scrolls' = ScrollEvent(estimatedIndex,
                                  SchedulesCommit(estimatedIndex))
        /\ UNCHANGED <<activePostId, rActivePostId, activeVideoIndex,
                       rActiveVideoIndex, mounted, slot, window, prefetched,
                 netVars, cacheVars, lookahead, logged, loads>>

\* The callback of the scroll setTimeout, 200 ms after the scroll event.
ScrollTimeout ==
  /\ Task
  /\ scrollTimeoutRef # NoTimer
  /\ activePostId' = PostId(scrollTimeoutRef)
  /\ scrollTimeoutRef' = NoTimer
  /\ commits' = 0
  /\ scrolls' = ScrollFires(scrollTimeoutRef)
  /\ UNCHANGED <<rActivePostId, activeVideoIndex, rActiveVideoIndex,
                 mounted, slot, window, prefetched,
                 netVars, cacheVars, lookahead, logged, loads>>

HandleMomentumScrollEnd ==
  /\ Task
  /\ scrollTimeoutRef' = NoTimer
  /\ commits' = 0
  /\ scrolls' = ScrollEnds
  /\ UNCHANGED <<activePostId, rActivePostId, activeVideoIndex,
                 rActiveVideoIndex, mounted, slot, window, prefetched,
                 netVars, cacheVars, lookahead, logged, loads>>

\* Post.handleScroll: Math.round(x / itemWidth), clamped.
ItemWidth == (9 * ScreenWidth) \div 10 + TileMargin

\* A division that drops the fraction.
RoundDivDown(x, w) == x \div w

RoundDiv(x, w) == (2 * x + w) \div (2 * w)

ClampedIndex(x, n) == Max(0, Min(RoundDiv(x, ItemWidth), n - 1))

PostHandleScroll(p) ==
  \E x \in PostOffsets :
    /\ Task
    /\ activeVideoIndex' =
         [ activeVideoIndex EXCEPT ![p] = ClampedIndex(x, VideosLength(p)) ]
    /\ UNCHANGED <<activePostId, rActivePostId, rActiveVideoIndex,
                   scrollTimeoutRef, mounted, slot, window, commits,
                   prefetched, netVars,
                 cacheVars, lookahead, logged, loads, scrolls>>

\* Post.onViewableItemsChanged: the loop over the report; cur is the
\* activeVideoIndex the callback closes over.
RECURSIVE PostScan(_, _, _, _, _)
PostScan(report, i, cur, n, best) ==
  IF i > Len(report) THEN best
  ELSE LET item == report[i]
       IN  IF item.isViewable /\ item.index # NullIndex
                /\ item.index >= 0 /\ item.index < n
                /\ (~best.found \/ item.index = cur)
             THEN PostScan(report, i + 1, cur, n,
                           [ found |-> TRUE, mostVisibleIndex |-> item.index ])
             ELSE PostScan(report, i + 1, cur, n, best)

MostVisibleIndex(report, cur, n) ==
  PostScan(report, 1, cur, n,
           [ found |-> FALSE, mostVisibleIndex |-> cur ]).mostVisibleIndex

\* The activeVideoIndex that the handler leaves: prev is the state, cur the
\* value of the render the callback was created in.
PostNewActive(prev, cur, n, report) ==
  LET idx == IF Len(report) = 0 THEN cur
             ELSE MostVisibleIndex(report, cur, n)
  IN  IF idx # cur /\ idx >= 0 /\ idx < n THEN idx ELSE prev

PostOnViewableItemsChanged(p, reports) ==
  \E report \in reports :
        /\ Task
        /\ activeVideoIndex' =
             [ activeVideoIndex EXCEPT
                 ![p] = PostNewActive(@, rActiveVideoIndex[p],
                                      VideosLength(p), report) ]
        /\ UNCHANGED <<activePostId, rActivePostId, rActiveVideoIndex,
                       scrollTimeoutRef, mounted, slot, window, commits,
                   prefetched, netVars,
                 cacheVars, lookahead, logged, loads, scrolls>>

\* ---------------------------------------------------------- lookahead
\* activePostIndex of Feed: findIndex of the active id, -1 when none.
ActivePostIndex(ap) ==
  IF ap = NullId THEN -1
  ELSE IF \E i \in Posts : PostId(i) = ap
         THEN CHOOSE i \in Posts : PostId(i) = ap
         ELSE -1

\* The effect of Feed with the last post guarded one too far.
FeedPrefetchPastLast(prevAp, ap) ==
  LET i == ActivePostIndex(ap)
  IN  IF /\ ActivePostIndex(prevAp) # i
         /\ i >= 0 /\ i < NumPosts
         /\ VideosLength(i + 1) > 0
        THEN << [ by |-> "Feed", target |-> <<i + 1, 0>> ] >>
        ELSE << >>

\* The effect of Feed on [activePostIndex, posts]: it runs in the commits
\* that change activePostIndex and calls prefetchVideoMetadata for the first
\* video of the next post.
FeedPrefetch(prevAp, ap) ==
  LET i == ActivePostIndex(ap)
  IN  IF /\ ActivePostIndex(prevAp) # i
         /\ i >= 0 /\ i < NumPosts - 1
         /\ VideosLength(i + 1) > 0
        THEN << [ by |-> "Feed", target |-> <<i + 1, 0>> ] >>
        ELSE << >>

\* The effect of Post without the test of isActive.
PostPrefetchInactive(p, wasActive, prevAvi, isActive, avi) ==
  IF /\ (wasActive # isActive \/ prevAvi # avi)
     /\ VideosLength(p) > 0
     /\ avi + 1 < VideosLength(p)
    THEN << [ by |-> "Post", target |-> <<p, avi + 1>> ] >>
    ELSE << >>

\* The effect of Post p on [isActive, activeVideoIndex, post.videos]: it
\* runs in the commits that change isActive or activeVideoIndex and, when
\* the post is active, calls prefetchVideoMetadata for the next video of the
\* carousel.
PostPrefetch(p, wasActive, prevAvi, isActive, avi) ==
  IF /\ (wasActive # isActive \/ prevAvi # avi)
     /\ isActive /\ VideosLength(p) > 0
     /\ avi + 1 < VideosLength(p)
    THEN << [ by |-> "Post", target |-> <<p, avi + 1>> ] >>
    ELSE << >>

\* The calls of one commit that moves the rendered state from
\* (prevAp, prevAvi) to (ap, avi): the effects of the Posts (children) run
\* before the effect of Feed.
RECURSIVE PostPrefetches(_, _, _, _, _)
PostPrefetches(p, prevAp, prevAvi, ap, avi) ==
  IF p >= NumPosts THEN << >>
  ELSE PostPrefetch(p, RenderPost(prevAp, p), prevAvi[p],
                    RenderPost(ap, p), avi[p])
         \o PostPrefetches(p + 1, prevAp, prevAvi, ap, avi)

Prefetches(prevAp, prevAvi, ap, avi) ==
  PostPrefetches(0, prevAp, prevAvi, ap, avi) \o FeedPrefetch(prevAp, ap)

\* ------------------------------------------------------------- React
\* One commit: Feed, every Post and every mounted VideoPlayer render with the
\* current state, then the effects of all of them run.
Render ==
  /\ Dirty
  /\ deferred' = 0
  /\ rActivePostId' = activePostId
  /\ rActiveVideoIndex' = activeVideoIndex
  /\ slot' = [ s \in Slots |->
                 IF s \in mounted
                   THEN RenderSlot(slot[s],
                          IsVideoActive(activePostId, activeVideoIndex, s))
                   ELSE slot[s] ]
  /\ prefetched' = Prefetches(rActivePostId, rActiveVideoIndex,
                              activePostId, activeVideoIndex)
  /\ ~lookahead.observed
       \/ lookahead.outstanding + Len(prefetched') <= MaxOutstanding
  /\ lookahead' = IF lookahead.observed
                    THEN [ lookahead EXCEPT
                             !.outstanding = @ + Len(prefetched') ]
                    ELSE lookahead
  /\ logged' = LogActivations({ s \in mounted :
                    ~slot[s].lastActiveState /\ slot'[s].lastActiveState })
  /\ loads' = LoadSuperseded(
                 { s \in mounted :
                     slot[s].lastActiveState /\ ~slot'[s].lastActiveState },
                 { s \in mounted :
                     ~slot[s].lastActiveState /\ slot'[s].lastActiveState })
  /\ UNCHANGED <<activePostId, activeVideoIndex, scrollTimeoutRef, mounted,
                 window, commits, netVars, cacheVars, scrolls>>

\* A request of a lookahead effect settles (response, fault or the abort by
\* its timer): prefetchVideoMetadata resolves and the effect's caller drops
\* the result.
LookaheadSettles ==
  /\ Task
  /\ lookahead.observed
  /\ lookahead.outstanding > 0
  /\ lookahead' = [ lookahead EXCEPT !.outstanding = @ - 1 ]
  /\ UNCHANGED <<treeVars, mounted, slot, window, netVars, cacheVars,
                 logged, loads, scrolls>>

\* The carousel mounts the cell of slot s: a new VideoPlayer with the prop
\* of the current render.
Mount(s) ==
  /\ Task
  /\ s \in window \ mounted
  /\ mounted' = mounted \cup {s}
  /\ slot' = [ slot EXCEPT
               ![s] = NewSlot(IsVideoActive(rActivePostId, rActiveVideoIndex, s)) ]
  /\ logged' = LogNothing(s)
  /\ loads' = LoadFirst(s)
  /\ UNCHANGED scrolls
  /\ UNCHANGED <<treeVars, window, netVars,
                 cacheVars, lookahead>>

\* The cell is unmounted: the effects' cleanups run (listeners removed, the
\* play timer cleared) and useVideoPlayer releases the player.  A retry timer
\* that is still pending only finds the released player.
Unmount(s) ==
  /\ Task
  /\ s \in mounted
  /\ mounted' = mounted \ {s}
  /\ slot' = [ slot EXCEPT ![s] = NoSlot ]
  /\ logged' = LogNothing(s)
  /\ loads' = LoadNothing(s)
  /\ UNCHANGED scrolls
  /\ UNCHANGED <<treeVars, window, netVars,
                 cacheVars, lookahead>>

\* ------------------------------------------------- the slot's own steps
Tap(s) ==
  /\ Task
  /\ s \in mounted
  /\ slot' = [ slot EXCEPT ![s] = TogglePause(@) ]
  /\ UNCHANGED <<treeVars, mounted, window, netVars,
                 cacheVars, lookahead, logged, loads, scrolls>>

PlayTimeoutFires(s) ==
  /\ Task
  /\ s \in mounted
  /\ slot[s].playTimeout
  /\ slot' = [ slot EXCEPT ![s] = PlayTimeout(@) ]
  /\ UNCHANGED <<treeVars, mounted, window, netVars,
                 cacheVars, lookahead, logged, loads, scrolls>>

RetryTimeoutFires(s) ==
  /\ Task
  /\ s \in mounted
  /\ slot[s].retryTimers # <<>>
  /\ slot' = [ slot EXCEPT ![s] = RetryTimeout(@) ]
  /\ loads' = LoadRetry(s, Head(slot[s].retryTimers).isActive)
  /\ UNCHANGED scrolls
  /\ UNCHANGED <<treeVars, mounted, window, netVars,
                 cacheVars, lookahead, logged>>

\* ------------------------------------------------------------ the player
\* The source is loaded (first load, after a stall, after a new attempt).
PlayerReady(s) ==
  /\ Task
  /\ s \in mounted
  /\ slot[s].status = "loading"
  /\ slot' = [ slot EXCEPT
               ![s] = StatusReadyToPlay([ @ EXCEPT !.status = "readyToPlay" ]) ]
  /\ LogRoom(s, "time_to_first_frame", LogsTTFF(slot[s]))
  /\ logged' = Log(s, "time_to_first_frame", LogsTTFF(slot[s]))
  /\ loads' = LoadReady(s)
  /\ UNCHANGED scrolls
  /\ UNCHANGED <<treeVars, mounted, window, netVars,
                 cacheVars, lookahead>>

\* Playback stalls: the player buffers again.  The 'loading' case of the
\* listener only sets isBuffering.
PlayerStall(s) ==
  /\ Task
  /\ s \in mounted
  /\ slot[s].status = "readyToPlay"
  /\ slot' = [ slot EXCEPT ![s] = [ @ EXCEPT !.status = "loading",
                                             !.playing = FALSE ] ]
  /\ UNCHANGED <<treeVars, mounted, window, netVars,
                 cacheVars, lookahead, logged, loads, scrolls>>

\* The player reports a fault.  The listener runs for every statusChange
\* event with status 'error'; nothing in it relies on the previous status, so
\* a player that is in error may report a fault again.
PlayerError(s) ==
  /\ Task
  /\ s \in mounted
  /\ slot[s].faults < MaxFaults
  /\ Len(slot[s].retryTimers) < MaxTimers
  /\ slot[s].status \in {"loading", "readyToPlay", "error"}
  /\ slot' = [ slot EXCEPT
               ![s] = StatusError([ @ EXCEPT !.status = "error",
                                             !.playing = FALSE ]) ]
  /\ loads' = LoadFault(s, SchedulesRetry(slot[s]))
  /\ UNCHANGED scrolls
  /\ UNCHANGED <<treeVars, mounted, window, netVars,
                 cacheVars, lookahead, logged>>

\* Playback starts: playingChange(true), with the player at one of medias.
\* The listener that logs records the position when player.duration is
\* truthy.
PlayerPlays(s, medias) ==
  \E media \in medias :
    /\ Task
    /\ s \in mounted
    /\ slot[s].intent /\ slot[s].status = "readyToPlay" /\ ~slot[s].playing
    /\ slot' = [ slot EXCEPT
                 ![s] = PlayingChange([ @ EXCEPT !.playing = TRUE ]) ]
    /\ cache' = IF LogsStart(slot[s]) /\ media.duration # 0
                  THEN MarkAsWatched(cache, Url(s), media.currentTime,
                                     media.duration, now)
                  ELSE cache
    /\ LogRoom(s, "playback_start", LogsStart(slot[s]))
    /\ logged' = Log(s, "playback_start", LogsStart(slot[s]))
    /\ UNCHANGED <<treeVars, mounted, window, netVars, now, lookahead,
                   loads, scrolls>>

\* A playToEnd listener that records the position the player reports.
PlayerPlaysToEndAtPosition(s, medias) ==
  \E media \in medias :
    /\ Task
    /\ s \in mounted
    /\ slot[s].playing
    /\ slot' = [ slot EXCEPT ![s] = PlayToEndListener(@) ]
    /\ cache' = IF LogsComplete(slot[s])
                  THEN MarkAsWatched(cache, Url(s), media.currentTime,
                                     media.duration, now)
                  ELSE cache
    /\ LogRoom(s, "playback_complete", LogsComplete(slot[s]))
    /\ logged' = Log(s, "playback_complete", LogsComplete(slot[s]))
    /\ UNCHANGED <<treeVars, mounted, window, netVars, now, lookahead,
                   loads, scrolls>>

\* The video reaches its end, with the player at one of medias; player.loop
\* keeps it playing.  The listener that logs records the duration as the
\* position.
PlayerPlaysToEnd(s, medias) ==
  \E media \in medias :
    /\ Task
    /\ s \in mounted
    /\ slot[s].playing
    /\ slot' = [ slot EXCEPT ![s] = PlayToEndListener(@) ]
    /\ cache' = IF LogsComplete(slot[s])
                  THEN MarkAsWatched(cache, Url(s), media.duration,
                                     media.duration, now)
                  ELSE cache
    /\ LogRoom(s, "playback_complete", LogsComplete(slot[s]))
    /\ logged' = Log(s, "playback_complete", LogsComplete(slot[s]))
    /\ UNCHANGED <<treeVars, mounted, window, netVars, now, lookahead,
                   loads, scrolls>>

\* ------------------------------------------------- videoCache's steps
\* A call of markAsWatched by any caller.  Fewer than maxCacheSize entries
\* carry the present millisecond: the calls of one millisecond are few.
MarkAsWatchedCall(medias) ==
  \E uri \in Uris, media \in medias :
    /\ Task
    /\ SameMillisecond(cache, now) < maxCacheSize
    /\ cache' = MarkAsWatched(cache, uri, media.currentTime, media.duration,
                              now)
    /\ UNCHANGED <<treeVars, mounted, slot, window, netVars, lookahead, now,
                   logged, loads, scrolls>>

\* A call of markAsWatched by any caller, however many calls the present
\* millisecond has seen.
MarkAsWatchedBurst(medias) ==
  \E uri \in Uris, media \in medias :
    /\ Task
    /\ cache' = MarkAsWatched(cache, uri, media.currentTime, media.duration,
                              now)
    /\ UNCHANGED <<treeVars, mounted, slot, window, netVars, lookahead, now,
                   logged, loads, scrolls>>

\* The clock advances by a millisecond or more.
Tick ==
  /\ Task
  /\ now < MaxClock
  /\ now' = now + 1
  /\ UNCHANGED <<treeVars, mounted, slot, window, netVars, lookahead, cache,
                 logged, loads, scrolls>>

\* ------------------------------------------------------------- prefetch
\* What a fetch settles with: a response with its status, a network fault
\* (fetch rejects with a TypeError) or the abort of the request by the
\* timer of prefetchVideoMetadata (fetch rejects with an AbortError).
Statuses == {200, 204, 206, 299, 301, 404, 500}

FetchOutcomes ==
  [ kind : {"response"}, status : Statuses ]
    \cup [ kind : {"TypeError", "AbortError"}, status : {0} ]

Positions == 1 .. MaxUrls

\* response.ok
ResponseOk(status) == status >= 200 /\ status <= 299

\* prefetchVideoMetadata with no catch around its fetch.
PrefetchVideoMetadataNoCatch(outcome) ==
  IF outcome.kind = "response"
    THEN [ settled |-> "resolved",
           value |-> ResponseOk(outcome.status) \/ outcome.status = 206 ]
    ELSE [ settled |-> "rejected", value |-> FALSE ]

\* prefetchVideoMetadata from the point where its fetch settles: how the
\* promise it returned settles.
PrefetchVideoMetadata(outcome) ==
  IF outcome.kind = "response"
    THEN [ settled |-> "resolved",
           value |-> ResponseOk(outcome.status) \/ outcome.status = 206 ]
    ELSE [ settled |-> "resolved", value |-> FALSE ]

\* One call of prefetchVideoMetadata: state "unstarted", "pending" (awaiting
\* its fetch), "resolved" or "rejected"; value, what it resolved with; timer,
\* its abort timer is set; fetches, history, the requests it has issued.
NoProbe ==
  [ state |-> "unstarted", value |-> FALSE, timer |-> FALSE, fetches |-> 0 ]

\* The call up to its await: the timer is set and the request issued.
ProbeStart(r) ==
  [ r EXCEPT !.state = "pending", !.timer = TRUE, !.fetches = @ + 1 ]

\* A call whose fetch was not given controller.signal: the abort of the
\* timer does not reach the request, which stays pending.
ProbeSettleUnsignalled(r, outcome) ==
  IF outcome.kind = "AbortError" THEN r
  ELSE [ r EXCEPT !.state = PrefetchVideoMetadata(outcome).settled,
                  !.value = PrefetchVideoMetadata(outcome).value,
                  !.timer = IF outcome.kind = "response" THEN FALSE ELSE @ ]

\* The call after its await: clearTimeout runs only when fetch resolved.
ProbeSettle(r, outcome) ==
  LET result == PrefetchVideoMetadata(outcome)
  IN  [ r EXCEPT !.state = result.settled, !.value = result.value,
                 !.timer = IF outcome.kind = "response" THEN FALSE ELSE @ ]

\* Batches one url longer than MAX_CONCURRENT.
BatchOneMore(n, b) ==
  { k \in 1 .. n : /\ k > (b - 1) * (MAX_CONCURRENT + 1)
                   /\ k <= b * (MAX_CONCURRENT + 1) }

\* The positions of urls.slice(i, i + MAX_CONCURRENT) for the b-th batch,
\* i = (b - 1) * MAX_CONCURRENT, of an argument of n urls.
Batch(n, b) ==
  { k \in 1 .. n : /\ k > (b - 1) * MAX_CONCURRENT
                   /\ k <= b * MAX_CONCURRENT }

\* batches.length: the loop pushes a batch while i < urls.length.
RECURSIVE NumBatches(_, _)
NumBatches(n, b) == IF Batch(n, b + 1) = {} THEN b ELSE NumBatches(n, b + 1)

\* batch.map(prefetchVideoMetadata): every call of the batch runs up to its
\* await before Promise.allSettled is awaited.
StartBatch(pr, batch) ==
  [ k \in Positions |-> IF k \in batch THEN ProbeStart(pr[k]) ELSE pr[k] ]

\* The loop ended by the first batch that has a probe resolved with false.
ContinueUntilFailure(pr) ==
  LET b == Len(started)
      n == Len(urls)
  IN  IF run # "running" \/ \E k \in Batch(n, b) : pr[k].state = "pending"
        THEN /\ probe' = pr
             /\ UNCHANGED <<run, urls, started>>
        ELSE IF b < NumBatches(n, 0) /\ \A k \in Batch(n, b) : pr[k].value
          THEN /\ probe' = StartBatch(pr, Batch(n, b + 1))
               /\ started' = Append(started, Batch(n, b + 1))
               /\ UNCHANGED <<run, urls>>
          ELSE /\ probe' = pr
               /\ run' = "done"
               /\ UNCHANGED <<urls, started>>

\* The loop of prefetchMultipleVideos after the probes became pr: when no
\* call of the running batch is pending, allSettled resolves and the loop
\* starts the next batch or, after the last, the function returns.  All of
\* it runs in the microtasks of the task that settled the last call.
Continue(pr) ==
  LET b == Len(started)
      n == Len(urls)
  IN  IF run # "running" \/ \E k \in Batch(n, b) : pr[k].state = "pending"
        THEN /\ probe' = pr
             /\ UNCHANGED <<run, urls, started>>
        ELSE IF b < NumBatches(n, 0)
          THEN /\ probe' = StartBatch(pr, Batch(n, b + 1))
               /\ started' = Append(started, Batch(n, b + 1))
               /\ UNCHANGED <<run, urls>>
          ELSE /\ probe' = pr
               /\ run' = "done"
               /\ UNCHANGED <<urls, started>>

\* A call of prefetchMultipleVideos with n urls; url k is the k-th one.
PrefetchMultipleVideos ==
  \E n \in 0 .. MaxUrls :
    /\ Task
    /\ run = "idle"
    /\ urls' = [ k \in 1 .. n |-> k ]
    /\ IF n = 0
         THEN /\ run' = "done"
              /\ UNCHANGED <<started, probe>>
         ELSE /\ run' = "running"
              /\ started' = << Batch(n, 1) >>
              /\ probe' = StartBatch(probe, Batch(n, 1))
    /\ UNCHANGED <<treeVars, mounted, slot, window, cacheVars, lookahead, logged, loads, scrolls>>

\* The fetch of call k settles by itself: a response or a network fault.
FetchSettles(k, outcomes) ==
  \E outcome \in outcomes :
    /\ Task
    /\ outcome.kind # "AbortError"
    /\ probe[k].state = "pending"
    /\ Continue([ probe EXCEPT ![k] = ProbeSettle(@, outcome) ])
    /\ UNCHANGED <<treeVars, mounted, slot, window, cacheVars, lookahead, logged, loads, scrolls>>

\* The abort timer of call k expires: controller.abort() rejects a fetch
\* that is pending and does nothing to one that has settled.
PrefetchTimeout(k) ==
  /\ Task
  /\ probe[k].timer
  /\ LET fired == [ probe[k] EXCEPT !.timer = FALSE ]
     IN  Continue([ probe EXCEPT
                      ![k] = IF fired.state = "pending"
                               THEN ProbeSettle(fired, [ kind |-> "AbortError",
                                                         status |-> 0 ])
                               ELSE fired ])
  /\ UNCHANGED <<treeVars, mounted, slot, window, cacheVars, lookahead, logged, loads, scrolls>>

\* --------------------------------------------------------- specification
InitTree ==
  /\ deferred = 0
  /\ commits = 0
  /\ prefetched = <<>>
  /\ run = "idle"
  /\ urls = <<>>
  /\ started = <<>>
  /\ probe = [ k \in Positions |-> NoProbe ]
  /\ cache = << >>
  /\ now = 0
  /\ activePostId = NullId
  /\ rActivePostId = NullId
  /\ activeVideoIndex = [ p \in Posts |-> 0 ]
  /\ rActiveVideoIndex = [ p \in Posts |-> 0 ]
  /\ scrollTimeoutRef = NoTimer
  /\ mounted = {}
  /\ slot = [ s \in Slots |-> NoSlot ]

\* The whole feed: every slot may be mounted.
Init ==
  /\ InitTree
  /\ lookahead = NoLookahead
  /\ logged = NoLogged
  /\ loads = NoLoads
  /\ scrolls = NoScrolls
  /\ window = Slots

\* Reports of one viewable post: enough to move the active post.
OneViewable == { << [ index |-> i, isViewable |-> TRUE ] >> : i \in Posts }

TreeNext ==
  \/ FeedOnViewableItemsChanged(FeedReports)
  \/ FeedHandleScroll
  \/ ScrollTimeout
  \/ HandleMomentumScrollEnd
  \/ \E p \in Posts : PostHandleScroll(p)
  \/ \E p \in Posts : PostOnViewableItemsChanged(p, PostReports)
  \/ Render
  \/ \E s \in Slots : Mount(s)
  \/ \E s \in Slots : Unmount(s)

\* The feed and its carousels with the props they give to every slot.
Spec == Init /\ [][TreeNext]_vars

\* One slot, the first video of the first post, with its whole controller.
SlotInit ==
  /\ InitTree
  /\ lookahead = NoLookahead
  /\ logged = NoLogged
  /\ loads = NoLoads
  /\ scrolls = NoScrolls
  /\ window = { <<0, 0>> }

SlotNext ==
  \/ FeedOnViewableItemsChanged(OneViewable)
  \/ Render
  \/ \E s \in Slots : Mount(s)
  \/ \E s \in Slots : Unmount(s)
  \/ \E s \in Slots : Tap(s)
  \/ \E s \in Slots : PlayTimeoutFires(s)
  \/ \E s \in Slots : RetryTimeoutFires(s)
  \/ \E s \in Slots : PlayerReady(s)
  \/ \E s \in Slots : PlayerStall(s)
  \/ \E s \in Slots : PlayerError(s)
  \/ \E s \in Slots : PlayerPlays(s, UnknownDuration)
  \/ \E s \in Slots : PlayerPlaysToEnd(s, UnknownDuration)

SlotSpec == SlotInit /\ [][SlotNext]_vars

\* Two slots, either neighbours in one carousel or the first videos of two
\* posts, with the selection moving between them on both axes.
PairInit ==
  /\ InitTree
  /\ lookahead = NoLookahead
  /\ logged = NoLogged
  /\ loads = NoLoads
  /\ scrolls = NoScrolls
  /\ window \in { { <<1, 0>>, <<1, 1>> }, { <<0, 0>>, <<1, 0>> } }

PairNext ==
  \/ FeedOnViewableItemsChanged(OneViewable)
  \/ \E p \in Posts : PostHandleScroll(p)
  \/ Render
  \/ \E s \in Slots : Mount(s)
  \/ \E s \in Slots : Unmount(s)
  \/ \E s \in Slots : Tap(s)
  \/ \E s \in Slots : PlayTimeoutFires(s)
  \/ \E s \in Slots : PlayerReady(s)
  \/ \E s \in Slots : PlayerPlays(s, UnknownDuration)

PairSpec == PairInit /\ [][PairNext]_vars

\* The prefetch utilities by themselves: one call of prefetchMultipleVideos
\* with the network answering its requests.
PrefetchInit ==
  /\ InitTree
  /\ lookahead = NoLookahead
  /\ logged = NoLogged
  /\ loads = NoLoads
  /\ scrolls = NoScrolls
  /\ window = {}

PrefetchNext ==
  \/ PrefetchMultipleVideos
  \/ \E k \in Positions : FetchSettles(k, FetchOutcomes)
  \/ \E k \in Positions : PrefetchTimeout(k)

PrefetchSpec == PrefetchInit /\ [][PrefetchNext]_vars

\* The same with the timers of the JS runtime: an abort timer that is set
\* expires (setTimeout of 5000 ms) unless clearTimeout removed it first.  No
\* fairness is asked of the network: a request may stay without an answer.
PrefetchLiveSpec ==
  /\ PrefetchInit
  /\ [][PrefetchNext]_vars
  /\ \A k \in Positions : WF_vars(PrefetchTimeout(k))

\* The lookahead effects of Feed and Post with the network that answers
\* their requests.
LookaheadInit ==
  /\ InitTree
  /\ lookahead = [ observed |-> TRUE, outstanding |-> 0 ]
  /\ logged = NoLogged
  /\ loads = NoLoads
  /\ scrolls = NoScrolls
  /\ window = {}

LookaheadNext ==
  \/ FeedOnViewableItemsChanged(OneViewable)
  \/ \E p \in Posts : PostHandleScroll(p)
  \/ Render
  \/ LookaheadSettles

LookaheadSpec == LookaheadInit /\ [][LookaheadNext]_vars

\* The watch cache by itself, with the calls of any callers.
CacheInit ==
  /\ InitTree
  /\ lookahead = NoLookahead
  /\ logged = NoLogged
  /\ loads = NoLoads
  /\ scrolls = NoScrolls
  /\ window = {}

CacheNext ==
  \/ MarkAsWatchedCall(KnownDuration)
  \/ Tick

CacheSpec == CacheInit /\ [][CacheNext]_vars

\* The watch cache with callers that may call it any number of times in
\* one millisecond.
BurstNext ==
  \/ MarkAsWatchedBurst(UnknownDuration)
  \/ Tick

BurstSpec == CacheInit /\ [][BurstNext]_vars

\* One slot, the first video of the first post, with the player at any
\* position and duration, the cache it writes to and what it logs.
WatchInit ==
  /\ InitTree
  /\ lookahead = NoLookahead
  /\ logged = [ NoLogged EXCEPT !.observed = TRUE ]
  /\ loads = NoLoads
  /\ scrolls = NoScrolls
  /\ window = { <<0, 0>> }

WatchNext ==
  \/ FeedOnViewableItemsChanged(OneViewable)
  \/ Render
  \/ \E s \in Slots : Mount(s)
  \/ \E s \in Slots : Unmount(s)
  \/ \E s \in Slots : PlayTimeoutFires(s)
  \/ \E s \in Slots : PlayerReady(s)
  \/ \E s \in Slots : PlayerStall(s)
  \/ \E s \in Slots : PlayerPlays(s, Medias)
  \/ \E s \in Slots : PlayerPlaysToEnd(s, Medias)
  \/ Tick

WatchSpec == WatchInit /\ [][WatchNext]_vars

\* One slot, the first video of the first post, with the faults of its
\* player and the retries of its controller.
RetryInit ==
  /\ InitTree
  /\ lookahead = NoLookahead
  /\ logged = NoLogged
  /\ loads = [ NoLoads EXCEPT !.observed = TRUE ]
  /\ scrolls = NoScrolls
  /\ window = { <<0, 0>> }

RetryNext ==
  \/ FeedOnViewableItemsChanged(OneViewable)
  \/ Render
  \/ \E s \in Slots : Mount(s)
  \/ \E s \in Slots : Unmount(s)
  \/ \E s \in Slots : PlayTimeoutFires(s)
  \/ \E s \in Slots : RetryTimeoutFires(s)
  \/ \E s \in Slots : PlayerReady(s)
  \/ \E s \in Slots : PlayerStall(s)
  \/ \E s \in Slots : PlayerError(s)

RetrySpec == RetryInit /\ [][RetryNext]_vars

\* The Feed with its scroll timers followed one by one.
ScrollInit ==
  /\ InitTree
  /\ lookahead = NoLookahead
  /\ logged = NoLogged
  /\ loads = NoLoads
  /\ scrolls = [ NoScrolls EXCEPT !.observed = TRUE ]
  /\ window = {}

ScrollNext ==
  \/ FeedOnViewableItemsChanged(FeedReports)
  \/ FeedHandleScroll
  \/ ScrollTimeout
  \/ HandleMomentumScrollEnd
  \/ Render

ScrollSpec == ScrollInit /\ [][ScrollNext]_vars


\* ------------------------------------------------------------- properties
\* C1: in every reachable state at most one mounted slot is rendered with
\* isActive = true, and a slot (p, v) rendered active is the slot of the
\* active post p and of p's activeVideoIndex v, as of the render that gave
\* the slots their props.
C1_SingleActiveSlot ==
  /\ \A s, t \in mounted : slot[s].isActive /\ slot[t].isActive => s = t
  /\ \A s \in mounted :
       slot[s].isActive =>
         /\ rActivePostId = PostId(s[1])
         /\ rActiveVideoIndex[s[1]] = s[2]

\* A slot that is not the first of its carousel is rendered active while a
\* slot of another post and its own neighbour are mounted and inactive.
C1_Witness ==
  \E s, t, u \in mounted :
    /\ slot[s].isActive /\ s[2] # 0
    /\ t[1] # s[1] /\ ~slot[t].isActive
    /\ u[1] = s[1] /\ u # s /\ ~slot[u].isActive

\* C2: at every instant at most one mounted slot's player is loading, ready,
\* playing or buffering (a loaded player that the user paused counts as
\* paused-by-user, a failed one as error).
C2_AtMostOneBusy ==
  Cardinality({ s \in mounted :
                  \/ slot[s].status = "loading"
                  \/ slot[s].status = "readyToPlay" /\ ~slot[s].manuallyPaused })
    <= 1

\* C3: a slot that is active, whose faults each follow an attempt and none of
\* whose attempts has succeeded, has made or scheduled at most MAX_RETRIES
\* retries, and once it has seen more than MAX_RETRIES faults it has logged
\* max_retries_reached.
C3_ExactlyMaxRetries ==
  \A s \in mounted :
    slot[s].isActive /\ slot[s].inOrder =>
      /\ slot[s].retryCount + Len(slot[s].retryTimers) <= MAX_RETRIES
      /\ slot[s].faults > MAX_RETRIES => slot[s].exhausted

\* C4: when the retry delay of a slot that is no longer active expires, the
\* retry is dropped: no replay reaches the player and the attempt is not
\* counted.
C4_RetryOnlyWhileActive ==
  [][ \A s \in Slots :
        RetryTimeoutFires(s) /\ ~slot[s].isActive =>
          /\ slot'[s].retryCount = slot[s].retryCount
          /\ slot'[s].intent = slot[s].intent
          /\ slot'[s].status = slot[s].status ]_vars

\* C5: a mounted slot that is active, not paused by the user and without a
\* fault either has had play() issued to its player or has the delayed play
\* pending, also when it was mounted already active.
C5_ActiveSlotGetsPlay ==
  \A s \in mounted :
    /\ slot[s].isActive
    /\ ~slot[s].manuallyPaused
    /\ slot[s].faults = 0 /\ slot[s].status # "error"
    => slot[s].intent \/ slot[s].playTimeout

\* C6: while a slot stays active and paused by the user no step issues
\* play() or replay to its player, and an activation clears the manual pause
\* and schedules the autoplay.
C6_ManualPauseSuppressesAutoplay ==
  [][ \A s \in Slots :
        /\ ( /\ s \in mounted /\ s \in mounted'
             /\ slot[s].isActive /\ slot'[s].isActive
             /\ slot[s].manuallyPaused /\ slot'[s].manuallyPaused )
           => (slot'[s].intent => slot[s].intent)
        /\ ( /\ s \in mounted /\ s \in mounted'
             /\ ~slot[s].isActive /\ slot'[s].isActive )
           => (~slot'[s].manuallyPaused /\ slot'[s].playTimeout) ]_vars

\* C7: a slot that played while it was active and is inactive now has its
\* player released once nothing of the tree is pending any more (no timer,
\* no render).
C7_InactiveSlotReleased ==
  \A s \in mounted :
    /\ ~slot[s].isActive /\ slot[s].hasLoggedStart
    /\ ~Dirty /\ scrollTimeoutRef = NoTimer
    /\ \A t \in mounted : ~slot[t].playTimeout /\ slot[t].retryTimers = <<>>
    => slot[s].status = "idle"

\* C8: from the step that exhausts the retries to the next activation the
\* slot keeps its error, no step schedules a retry and no step takes the
\* retry counter back.
C8_ExhaustedIsTerminal ==
  [][ \A s \in Slots :
        ( /\ s \in mounted /\ s \in mounted'
          /\ slot[s].exhausted
          /\ ~(~slot[s].lastActiveState /\ slot'[s].lastActiveState) )
        => /\ slot'[s].hasError /\ slot'[s].status = "error"
           /\ Len(slot'[s].retryTimers) <= Len(slot[s].retryTimers)
           /\ slot'[s].retryCount >= slot[s].retryCount ]_vars

\* C9: the commit that turns isActive from false to true resets the three
\* logged flags, the retry counter and the error flag, and the player
\* callbacks processed in the activation act on the reset values: the first
\* readyToPlay logs time_to_first_frame and the first start of playback logs
\* playback_start.
C9_ResetBeforeCallbacks ==
  [][ \A s \in Slots :
        /\ ( /\ s \in mounted /\ s \in mounted'
             /\ ~slot[s].isActive /\ slot'[s].isActive )
           => /\ ~slot'[s].hasLoggedStart /\ ~slot'[s].hasLoggedComplete
              /\ ~slot'[s].hasLoggedTTFF
              /\ slot'[s].retryCount = 0 /\ ~slot'[s].hasError
        /\ (PlayerReady(s) /\ slot[s].isActive) => slot'[s].hasLoggedTTFF
        /\ (PlayerPlays(s, UnknownDuration) /\ slot[s].isActive)
             => slot'[s].hasLoggedStart ]_vars

\* C10: the step that takes the activation from a slot A pauses A's player,
\* and when the delayed play() of a slot B is issued no other mounted slot
\* is still activated or has a delayed play pending: A's pause came first.
C10_PauseBeforePlay ==
  [][ \A s \in Slots :
        /\ ( /\ s \in mounted /\ s \in mounted'
             /\ slot[s].lastActiveState /\ ~slot'[s].lastActiveState )
           => (~slot'[s].intent /\ ~slot'[s].playing)
        /\ PlayTimeoutFires(s)
           => \A a \in mounted \ {s} :
                ~slot[a].lastActiveState /\ ~slot[a].playTimeout ]_vars

\* B plays after its activation while A, which had started playback in its
\* own activation, is mounted, inactive and paused.
C10_Witness ==
  \E a, b \in mounted :
    /\ a # b
    /\ slot[b].isActive /\ slot[b].playing /\ slot[b].hasLoggedStart
    /\ ~slot[a].isActive /\ slot[a].hasLoggedStart
    /\ ~slot[a].intent /\ ~slot[a].playing

\* C11: whatever the active post is, the Feed's viewability handler given a
\* report with a viewable post keeps the active post when it is among the
\* viewable ones and otherwise makes the viewable post of lowest index active.
C11_OuterSelection ==
  \A report \in FeedReports :
    LET q == Qualifying(report, NumPosts)
    IN  q # {} =>
          FeedNewActive(activePostId, report) =
            IF \E i \in q : PostId(i) = activePostId
              THEN activePostId
              ELSE PostId(CHOOSE i \in q : \A j \in q : i <= j)

\* C12: whatever the carousel's active index is, the Post's viewability
\* handler given a report with a viewable video keeps the active index when
\* it is among the viewable ones and otherwise makes the viewable video of
\* lowest index active, in whatever order the report lists its items.
C12_InnerSelection ==
  \A p \in Posts : \A report \in PostReports :
    LET q == Qualifying(report, VideosLength(p))
    IN  q # {} =>
          PostNewActive(activeVideoIndex[p], rActiveVideoIndex[p],
                        VideosLength(p), report) =
            IF activeVideoIndex[p] \in q
              THEN activeVideoIndex[p]
              ELSE CHOOSE i \in q : \A j \in q : i <= j

\* C13: on both axes a report in which no item qualifies (it is empty, or
\* none of its items is viewable with a valid index) leaves the active post
\* and the active index as they are; an active post is never cleared.
C13_NoQualifyingKeeps ==
  /\ \A report \in FeedReports :
       Qualifying(report, NumPosts) = {} =>
         FeedNewActive(activePostId, report) = activePostId
  /\ \A p \in Posts : \A report \in PostReports :
       Qualifying(report, VideosLength(p)) = {} =>
         PostNewActive(activeVideoIndex[p], rActiveVideoIndex[p],
                       VideosLength(p), report) = activeVideoIndex[p]

\* A post is active and the carousel of the second post is not at its first
\* video, with a render pending: a report without a qualifying item has
\* something to keep on both axes.
C13_Witness ==
  /\ activePostId # NullId
  /\ activeVideoIndex[1] # 0
  /\ activeVideoIndex[1] # rActiveVideoIndex[1]

\* C14: a scroll event commits nothing by itself (its estimate waits for
\* the debounce timer), and a viewability report with a qualifying item that
\* arrives while that commit is pending cancels it.
C14_ReportSupersedesScroll ==
  [][ /\ FeedHandleScroll => activePostId' = activePostId
      /\ ( /\ scrollTimeoutRef # NoTimer
           /\ FeedOnViewableItemsChanged(
                { r \in FeedReports : Qualifying(r, NumPosts) # {} }) )
         => scrollTimeoutRef' = NoTimer ]_vars

\* C15: while one debounce timer of the Feed is pending (one debounce
\* interval) the viewability reports change the active post at most once,
\* unless a report without a qualifying item came in between.
C15_NoFlickerInInterval ==
  commits <= 1

\* C16: a commit that changes the active post index of Feed to i issues
\* exactly one prefetch by Feed, for the first video of post i + 1, when i is
\* not the last post and post i + 1 has a video, and none when i is the last
\* post; a commit that leaves the index unchanged issues none by Feed, and
\* no step other than a commit (a viewability report among them) issues a
\* call.
C16_OuterLookahead ==
  [][ /\ Render =>
           LET ByFeed(c) == c.by = "Feed"
               outer == SelectSeq(prefetched', ByFeed)
               i == ActivePostIndex(rActivePostId')
           IN  IF ActivePostIndex(rActivePostId) # i
                    /\ i < NumPosts - 1 /\ VideosLength(i + 1) > 0
                 THEN outer = << [ by |-> "Feed", target |-> <<i + 1, 0>> ] >>
                 ELSE outer = << >>
      /\ ~Render => prefetched' = prefetched
    ]_vars

\* The first post became active: the one call of the commit is for the first
\* video of the second post.
C16_Witness ==
  /\ rActivePostId = PostId(0)
  /\ prefetched = << [ by |-> "Feed", target |-> <<1, 0>> ] >>

\* C17: in a commit that changes the carousel index of a post to v while the
\* post is active, the post issues exactly one prefetch, for video v + 1,
\* when v + 1 is a video of the post, and none when v is the last video; a
\* post that is not active issues none.
C17_InnerLookahead ==
  [][ Render =>
        \A p \in Posts :
          LET ByPost(c) == c.by = "Post" /\ c.target[1] = p
              inner == SelectSeq(prefetched', ByPost)
              v == rActiveVideoIndex'[p]
          IN  /\ ~RenderPost(rActivePostId', p) => inner = << >>
              /\ ( /\ RenderPost(rActivePostId, p)
                   /\ RenderPost(rActivePostId', p)
                   /\ rActiveVideoIndex[p] # v )
                 => inner = IF v + 1 < VideosLength(p)
                              THEN << [ by |-> "Post", target |-> <<p, v + 1>> ] >>
                              ELSE << >>
    ]_vars

\* The carousel of the active second post moved to its second video: the one
\* call of the commit is for the third video.
C17_Witness ==
  /\ rActivePostId = PostId(1)
  /\ rActiveVideoIndex[1] = 1
  /\ prefetched = << [ by |-> "Post", target |-> <<1, 2>> ] >>

\* C18: the commit in which the active post moves from post i to post i + 1
\* whose carousel is at index 0 issues one prefetch in all, for the first
\* video of post i + 2 (none when post i + 1 is the last), and no prefetch
\* by the newly active post.
C18_OnlyOuterOnAdvance ==
  [][ LET i == ActivePostIndex(rActivePostId)
      IN  ( /\ Render
            /\ i >= 0 /\ i + 1 < NumPosts
            /\ rActivePostId' = PostId(i + 1)
            /\ rActiveVideoIndex[i + 1] = 0
            /\ rActiveVideoIndex'[i + 1] = 0 )
          => prefetched' =
               IF i + 2 < NumPosts
                 THEN << [ by |-> "Feed", target |-> <<i + 2, 0>> ] >>
                 ELSE << >>
    ]_vars

\* C19: a call of prefetchVideoMetadata never rejects; it resolves with true
\* exactly when its fetch got a response with a status from 200 to 299 (206
\* among them) and with false on every other response, on a network fault
\* and on the abort by its own timer; it issues one request and a call that
\* has settled issues no other.
C19_ProbeResolvesBoolean ==
  [][ \A k \in Positions :
        /\ probe'[k].state # "rejected"
        /\ probe'[k].fetches <= 1
        /\ probe[k].state = "resolved" =>
              /\ probe'[k].state = "resolved"
              /\ probe'[k].value = probe[k].value
              /\ probe'[k].fetches = probe[k].fetches
        /\ \A outcome \in FetchOutcomes :
              FetchSettles(k, {outcome}) =>
                /\ probe'[k].state = "resolved"
                /\ probe'[k].value = ( /\ outcome.kind = "response"
                                       /\ outcome.status >= 200
                                       /\ outcome.status <= 299 )
        /\ (PrefetchTimeout(k) /\ probe[k].state = "pending") =>
              /\ probe'[k].state = "resolved"
              /\ ~probe'[k].value
    ]_vars

\* A call that ended: one probe resolved with true, one with false after a
\* network fault (its timer is still set), one with false after a response
\* or after its timer aborted it.
C19_Witness ==
  /\ run = "done"
  /\ Len(urls) >= 3
  /\ probe[1].state = "resolved" /\ probe[1].value
  /\ probe[2].state = "resolved" /\ ~probe[2].value /\ probe[2].timer
  /\ probe[3].state = "resolved" /\ ~probe[3].value /\ ~probe[3].timer

\* C20: prefetchMultipleVideos starts its batches one after the other, the
\* b-th batch being the urls (b - 1) * 3 + 1 .. b * 3 of the argument, in
\* input order; a batch starts only when every probe of the batch before it
\* has settled, so at most 3 requests are outstanding; every url of a
\* started batch has been requested once and, when the call ends, every url
\* of the argument; 7 urls make 3 batches of 3, 3 and 1.
C20_BatchesOfThree ==
  LET n == Len(urls)
      pending == { k \in Positions : probe[k].state = "pending" }
      requested == UNION { started[b] : b \in 1 .. Len(started) }
  IN  /\ Cardinality(pending) <= 3
      /\ \A b \in 1 .. Len(started) :
            started[b] = ((b - 1) * 3 + 1) .. Min(b * 3, n)
      /\ Len(started) > 0 => pending \subseteq started[Len(started)]
      /\ Len(started) = 0 => pending = {}
      /\ \A k \in Positions :
            probe[k].fetches = IF k \in requested THEN 1 ELSE 0
      /\ run = "done" => requested = 1 .. n /\ pending = {}
      /\ (run = "done" /\ n = 7) =>
            /\ Len(started) = 3
            /\ Cardinality(started[1]) = 3
            /\ Cardinality(started[2]) = 3
            /\ Cardinality(started[3]) = 1

\* The call with 7 urls while its third batch, the one url left, is
\* outstanding.
C20_Witness ==
  /\ run = "running"
  /\ Len(urls) = 7
  /\ Len(started) = 3
  /\ probe[7].state = "pending"

\* C21: a probe of a batch is started only in a step after which every
\* probe of the batches before it has settled; a probe that settles with
\* false leaves the other probes of its batch as they are; and the call goes
\* on whatever the probes resolved with: while it runs a probe of its last
\* started batch is pending, and when it ends every url has been requested.
C21_BatchesInTurn ==
  [][ LET n == Len(urls')
          earlier == UNION { started'[b] : b \in 1 .. (Len(started') - 1) }
      IN  /\ \A k \in Positions :
                (probe[k].state = "unstarted" /\ probe'[k].state = "pending")
                  => /\ k \in started'[Len(started')]
                     /\ \A j \in earlier :
                           probe'[j].state \in {"resolved", "rejected"}
          /\ \A k \in Positions :
                ( /\ probe[k].state = "pending"
                  /\ probe'[k].state # "pending"
                  /\ ~probe'[k].value )
                  => \A j \in Positions \ {k} :
                       probe[j].state = "pending" => probe'[j] = probe[j]
          /\ run' = "running" =>
                \E k \in started'[Len(started')] : probe'[k].state = "pending"
          /\ run' = "done" =>
                \A k \in 1 .. n : probe'[k].fetches = 1
    ]_vars

\* A call with 7 urls ended although the first probe of its first batch and
\* a probe of its second batch resolved with false and others with true.
C21_Witness ==
  /\ run = "done"
  /\ Len(urls) = 7
  /\ probe[1].state = "resolved" /\ ~probe[1].value
  /\ probe[2].state = "resolved" /\ probe[2].value
  /\ probe[5].state = "resolved" /\ ~probe[5].value
  /\ probe[7].state = "resolved" /\ probe[7].value

\* C22: the requests of the lookahead effects of Feed and of every Post that
\* are outstanding at the same time are never more than 3.
C22_AtMostThreeOutstanding ==
  lookahead.observed => lookahead.outstanding <= 3

\* C23: marking a uri the full cache does not hold removes exactly one
\* entry of the maxCacheSize + 1, one whose lastWatched is the smallest of
\* them all, whatever the isFullyWatched flags are; the other entries are
\* kept and the cache holds maxCacheSize entries again.
C23_EvictsOneOldest ==
  \A uri \in Uris, media \in Medias :
    (Len(cache) = maxCacheSize /\ ~HasBeenWatched(cache, uri)) =>
      LET all == Upsert(cache, uri, media.currentTime, media.duration, now)
          kept == MarkAsWatched(cache, uri, media.currentTime,
                                media.duration, now)
          gone == { i \in 1 .. Len(all) :
                      \A j \in 1 .. Len(kept) : kept[j] # all[i] }
      IN  /\ Len(all) = maxCacheSize + 1
          /\ Len(kept) = maxCacheSize
          /\ Cardinality(gone) = 1
          /\ \A i \in gone : \A j \in 1 .. Len(all) :
                all[i].lastWatched <= all[j].lastWatched

\* A full cache after a cleanup (its first entry is a new one and later than
\* the second, the order of the sort) whose entries have both flags.
C23_Witness ==
  /\ Len(cache) = maxCacheSize
  /\ cache[1].watchCount = 1
  /\ cache[1].lastWatched > cache[2].lastWatched
  /\ \E i, j \in 1 .. Len(cache) :
        cache[i].isFullyWatched /\ ~cache[j].isFullyWatched

\* C24: the cache never holds more than maxCacheSize entries.
C24_CacheBounded ==
  Len(cache) <= maxCacheSize

\* The cache is full after a cleanup at the last time of the clock.
C24_Witness ==
  /\ Len(cache) = maxCacheSize
  /\ now = MaxClock
  /\ cache[1].watchCount = 1
  /\ cache[1].lastWatched = now
  /\ cache[1].lastWatched > cache[Len(cache)].lastWatched

C27_CompleteIsFullyWatched ==
  [][ \A s \in Slots, media \in Medias :
        (PlayerPlaysToEnd(s, {media}) /\ LogsComplete(slot[s])) =>
          /\ IsFullyWatched(cache', Url(s))
          /\ GetCacheEntry(cache', Url(s)).lastPosition = media.duration
          /\ GetCacheEntry(cache', Url(s)).duration = media.duration
          /\ GetCacheEntry(cache', Url(s)).lastWatched = now ]_vars

\* The slot logged playback_complete of a video it had started at a
\* position before 90 % of the duration.
C27_Witness ==
  \E s \in mounted :
    /\ logged.of[s]["playback_complete"] = 1
    /\ logged.of[s]["playback_start"] = 1
    /\ HasBeenWatched(cache, Url(s))
    /\ GetCacheEntry(cache, Url(s)).watchCount = 2
    /\ GetCacheEntry(cache, Url(s)).lastPosition = 10

\* C28: every step in which a slot logs playback_start leaves the cache
\* with an entry for the slot's video whose position is the one the player
\* started at.
C28_StartIsRecorded ==
  [][ \A s \in Slots, media \in Medias :
        (PlayerPlays(s, {media}) /\ LogsStart(slot[s])) =>
          /\ HasBeenWatched(cache', Url(s))
          /\ GetCacheEntry(cache', Url(s)).lastPosition = media.currentTime
     ]_vars

\* C29: since its activation a slot has logged playback_start at most once
\* and playback_complete at most once.
C29_OnceAnActivation ==
  \A s \in Slots :
    /\ logged.of[s]["playback_start"] <= 1
    /\ logged.of[s]["playback_complete"] <= 1

\* C30: since its mount a slot has logged time_to_first_frame at most once.
C30_TTFFOnceAMount ==
  \A s \in Slots : logged.of[s]["time_to_first_frame"] <= 1

\* C31: every retry made for a fault of the playback stream was made by
\* replay, and every retry made for a fault of the load was made by a
\* reload of the source.
C31_MethodFollowsFault ==
  \A s \in Slots : \A retry \in loads.of[s].made :
    /\ retry.fault = "stream" => retry.by = "replay"
    /\ retry.fault = "load" => retry.by = "reload"

\* What the component of a slot holds: its flags, its retry counter and
\* timers, and what it has asked of its player.
Controller(r) ==
  [ hasLoggedStart |-> r.hasLoggedStart,
    hasLoggedComplete |-> r.hasLoggedComplete,
    hasLoggedTTFF |-> r.hasLoggedTTFF, retryCount |-> r.retryCount,
    hasError |-> r.hasError, manuallyPaused |-> r.manuallyPaused,
    playTimeout |-> r.playTimeout, retryTimers |-> r.retryTimers,
    intent |-> r.intent, playing |-> r.playing ]

\* C32: the step in which a load that a deactivation superseded completes,
\* with the player ready or with a fault, leaves the component of the slot
\* as it is and starts no playback.
C32_SupersededLoadDiscarded ==
  [][ \A s \in Slots :
        ( /\ loads.of[s].load = "superseded"
          /\ loads'.of[s].load = "none"
          /\ s \in mounted' )
          => Controller(slot'[s]) = Controller(slot[s]) ]_vars

\* C33: a delayed play is pending only for a mounted slot that is rendered
\* active, so the commit that deactivates a slot leaves none pending; and
\* from a deactivation that cancelled the delayed play to the next
\* activation no play() of that timer is pending or issued: the player has
\* not been asked to play unless a retry did.
C33_DeactivationCancelsPlay ==
  \A s \in Slots :
    /\ slot[s].playTimeout =>
          s \in mounted /\ slot[s].isActive /\ slot[s].lastActiveState
    /\ loads.of[s].cancelled =>
          /\ ~slot[s].playTimeout
          /\ ~slot[s].isActive
          /\ slot[s].intent => loads.of[s].made # {}

\* A slot that was deactivated while its delayed play was pending.
C33_Witness ==
  \E s \in mounted :
    /\ loads.of[s].cancelled
    /\ ~slot[s].isActive
    /\ ~slot[s].intent
    /\ slot[s].status = "readyToPlay"

\* C34: a step in which the player of a slot logs a start or a completion,
\* and marks its video as watched, leaves hasBeenWatched, isFullyWatched
\* and the last position of every video with another id as they were.
C34_WatchStatusPerVideo ==
  [][ \A a \in mounted \cap mounted' :
        logged'.of[a] # logged.of[a] =>
          \A b \in Slots :
            VideoId(b) # VideoId(a) =>
              WatchStatus(cache', b) = WatchStatus(cache, b) ]_vars

\* C35: the retry counter of every slot is within 0 .. MAX_RETRIES.
C35_RetryCountBounded ==
  \A s \in Slots : slot[s].retryCount \in 0 .. MAX_RETRIES

\* C36: the activeVideoIndex of every post is an index of one of its
\* videos, and for every offset x the index handleScroll commits is an
\* integer nearest to x / itemWidth (no farther than half an item), taken
\* into 0 .. N - 1.
C36_IndexInRange ==
  \A p \in Posts :
    LET n == VideosLength(p)
    IN  /\ n >= 1
        /\ activeVideoIndex[p] \in 0 .. (n - 1)
        /\ rActiveVideoIndex[p] \in 0 .. (n - 1)
        /\ \A x \in FinePostOffsets :
              \E j \in -1 .. (MaxPostScrollK + 1) :
                /\ 2 * x - 2 * j * ItemWidth <= ItemWidth
                /\ 2 * j * ItemWidth - 2 * x <= ItemWidth
                /\ ClampedIndex(x, n) = Max(0, Min(j, n - 1))

\* The carousel of the second post is at its last video while the first
\* post, of one video, is at its only one.
C36_Witness ==
  /\ activeVideoIndex[1] = NumVideos - 1
  /\ rActiveVideoIndex[1] = NumVideos - 1
  /\ activeVideoIndex[0] = 0
  /\ \E x \in PostOffsets : RoundDiv(x, ItemWidth) > NumVideos - 1

\* C37: at most one scroll timer of the Feed is pending; a pending timer is
\* the one the ref names and carries the estimate of the last scroll event
\* (the timers of the events before it are cancelled); once the momentum
\* scroll has ended no timer is pending until the next scroll event, and
\* the cleanup of the unmount leaves none pending.
C37_OnePendingCommit ==
  /\ Cardinality(scrolls.pending) <= 1
  /\ \A timer \in scrolls.pending :
        /\ timer.id = scrolls.ref
        /\ timer.estimate = scrolls.last
        /\ timer.estimate = scrollTimeoutRef
  /\ scrolls.observed =>
        (scrolls.pending = {} <=> scrollTimeoutRef = NoTimer)
  /\ scrolls.ended => scrolls.pending = {}
  /\ UnmountCleanup = {}

\* A timer is pending after a scroll event that cancelled the timer of the
\* event before it.
C37_Witness ==
  /\ scrolls.superseded
  /\ scrolls.pending # {}
  /\ \E timer \in scrolls.pending : timer.id > 1

\* C38: whatever the cache holds, right after a call of markAsWatched for
\* a uri hasBeenWatched is true for that uri.
C38_MarkedIsKept ==
  \A uri \in Uris, media \in Medias :
    HasBeenWatched(MarkAsWatched(cache, uri, media.currentTime,
                                 media.duration, now), uri)


\* C39: the Feed starts with no active post, and once a post is active every
\* later step (viewability report, scroll event, timer expiry, render) leaves
\* activePostId the id of a post of the list: it never returns to null.
C39_ActiveNeverNull ==
  /\ activePostId = NullId
  /\ [][activePostId # NullId =>
          activePostId' \in { PostId(p) : p \in Posts }]_vars

\* An active post was rendered, and a later report or timer changed it.
C39_Witness ==
  /\ rActivePostId # NullId
  /\ activePostId # NullId
  /\ activePostId # rActivePostId
  /\ commits > 0


\* C40: every call of prefetchVideoMetadata that is pending eventually
\* settles, at the latest when its abort timer expires, and a running
\* prefetchMultipleVideos eventually returns, whether or not the network
\* answers any request.
C40_PrefetchTerminates ==
  /\ \A k \in Positions :
       (probe[k].state = "pending") ~> (probe[k].state = "resolved")
  /\ (run = "running") ~> (run = "done")

\* A call over several batches has returned with every probe resolved to
\* false and no abort timer left.
C40_Witness ==
  /\ run = "done"
  /\ Len(urls) > 2 * MAX_CONCURRENT
  /\ \A k \in 1 .. Len(urls) :
       /\ probe[k].state = "resolved"
       /\ ~probe[k].value
       /\ ~probe[k].timer
       /\ probe[k].fetches = 1

=============================================================================
